---- MODULE Spec2Model ----
(***************************************************************************)
(* Model of the DraftWolf / DraftFlow Blender add-ons                      *)
(* (src/aadons/draftwolf_addon.py, src/aadons/draftflow_addon.py):         *)
(* the remote client, the status poller thread, the root cache and the     *)
(* version-history cache of the panel.                                     *)
(***************************************************************************)
EXTENDS Integers, Sequences, FiniteSets, TLC

(***************************************************************************)
(* Python values.  A value that may be None, a string or a missing key is  *)
(* a record [k, s]; strings are sequences of one-character strings so that *)
(* len() and slicing are computed.                                         *)
(***************************************************************************)
NoneVal == [k |-> "none", s |-> <<>>]

AbsentVal == [k |-> "absent", s |-> <<>>]

Str(chars) == [k |-> "str", s |-> chars]

Rep(c, n) == [j \in 1..n |-> c]

(***************************************************************************)
(* Strings.  A file name is a sequence of one-character strings; the       *)
(* operators below are the str methods and regular expressions the add-on  *)
(* applies to names.  Indices start at 1 and Find is 0 for "not found".    *)
(***************************************************************************)
UpperCase ==
    <<"A", "B", "C", "D", "E", "F", "G", "H", "I", "J", "K", "L", "M",
      "N", "O", "P", "Q", "R", "S", "T", "U", "V", "W", "X", "Y", "Z">>

LowerCase ==
    <<"a", "b", "c", "d", "e", "f", "g", "h", "i", "j", "k", "l", "m",
      "n", "o", "p", "q", "r", "s", "t", "u", "v", "w", "x", "y", "z">>

Digits == {"0", "1", "2", "3", "4", "5", "6", "7", "8", "9"}

\* str.lower() of one character
LowerChar(c) ==
    IF \E i \in 1..Len(UpperCase) : UpperCase[i] = c
    THEN LowerCase[CHOOSE i \in 1..Len(UpperCase) : UpperCase[i] = c]
    ELSE c

\* s.lower()
Lower(s) == [i \in 1..Len(s) |-> LowerChar(s[i])]

\* c.isalnum()
IsAlnum(c) ==
    \/ c \in Digits
    \/ \E i \in 1..Len(UpperCase) : c = UpperCase[i] \/ c = LowerCase[i]

\* s[i:] starts with key
StartsAt(s, key, i) ==
    /\ i + Len(key) - 1 <= Len(s)
    /\ SubSeq(s, i, i + Len(key) - 1) = key

\* s.find(key) + 1
Find(s, key) ==
    IF \E i \in 1..Len(s) : StartsAt(s, key, i)
    THEN CHOOSE i \in 1..Len(s) :
            StartsAt(s, key, i) /\ \A j \in 1..(i - 1) : ~StartsAt(s, key, j)
    ELSE 0

\* s.rfind(key) + 1
RFind(s, key) ==
    IF \E i \in 1..Len(s) : StartsAt(s, key, i)
    THEN CHOOSE i \in 1..Len(s) :
            StartsAt(s, key, i) /\ \A j \in (i + 1)..Len(s) : ~StartsAt(s, key, j)
    ELSE 0

\* key in s
Contains(s, key) == Find(s, key) # 0

\* s.endswith(key)
EndsWith(s, key) ==
    Len(key) <= Len(s) /\ SubSeq(s, Len(s) - Len(key) + 1, Len(s)) = key

\* s[:i - 1], the part of s before index i
Before(s, i) == SubSeq(s, 1, i - 1)

\* s[i - 1:], the part of s from index i
From(s, i) == SubSeq(s, i, Len(s))

\* s.replace(key, '')
RECURSIVE Remove(_, _)
Remove(s, key) ==
    IF ~Contains(s, key) THEN s
    ELSE Before(s, Find(s, key))
           \o Remove(From(s, Find(s, key) + Len(key)), key)

\* os.path.splitext(filename) of a base name: the extension starts at the
\* last dot, unless only dots come before it.
splitext(s) ==
    LET d == RFind(s, <<".">>)
    IN  IF d > 0 /\ \E i \in 1..(d - 1) : s[i] # "."
        THEN [name |-> Before(s, d), ext |-> From(s, d)]
        ELSE [name |-> s, ext |-> <<>>]

\* VERSION_SUFFIX_PATTERN.sub('', s), the pattern being -v[\d\.]+$
SubVersionSuffix(s) ==
    LET Matches(i) ==
            /\ StartsAt(s, <<"-", "v">>, i)
            /\ i + 2 <= Len(s)
            /\ \A j \in (i + 2)..Len(s) : s[j] \in Digits \cup {"."}
    IN  IF \E i \in 1..Len(s) : Matches(i)
        THEN Before(s, CHOOSE i \in 1..Len(s) : Matches(i))
        ELSE s

\* NUMBER_SUFFIX_PATTERN.sub('', s), the pattern being -\d+$
SubNumberSuffix(s) ==
    LET Matches(i) ==
            /\ s[i] = "-"
            /\ i + 1 <= Len(s)
            /\ \A j \in (i + 1)..Len(s) : s[j] \in Digits
    IN  IF \E i \in 1..Len(s) : Matches(i)
        THEN Before(s, CHOOSE i \in 1..Len(s) : Matches(i))
        ELSE s

\* '-retrieved'
Retrieved == <<"-", "r", "e", "t", "r", "i", "e", "v", "e", "d">>

\* '-retrieved-version'
RetrievedVersion == Retrieved \o <<"-", "v", "e", "r", "s", "i", "o", "n">>

\* ' retrieved version'
SpacedMarker ==
    <<" ", "r", "e", "t", "r", "i", "e", "v", "e", "d", " ",
      "v", "e", "r", "s", "i", "o", "n">>

\* '.blend'
Blend == <<".", "b", "l", "e", "n", "d">>

\* The stem of the project file in the examples.
Foo == <<"F", "o", "o">>

\* A file path: its directory and its base name.
Path(dir, name) == [dir |-> dir, name |-> name]

\* os.path.basename(path)
basename(path) == path.name

\* One version of /draft/history: {'id': id, 'files': {path: ...}}, with
\* files the set of the paths that are the keys.
Version(id, files) == [id |-> id, files |-> files, label |-> "New Version"]

\* A JSON document as the add-on looks at it.  shape "dict" is a JSON
\* object, "list" a JSON array with the elements elems (it has no .get),
\* "null" the JSON null (None).  A key that is missing holds "<absent>" /
\* AbsentVal.
EmptyDict ==
    [shape |-> "dict", success |-> "<absent>", error |-> "<absent>",
     loggedIn |-> "<absent>", username |-> AbsentVal, root |-> "<absent>",
     elems |-> <<>>]

JsonNull == [EmptyDict EXCEPT !.shape = "null"]

JsonArray(elems) == [EmptyDict EXCEPT !.shape = "list", !.elems = elems]

\* {'success': False, 'error': msg}
FailureShape(msg) == [EmptyDict EXCEPT !.success = "false", !.error = msg]

\* bool(x) of a JSON true / false / missing key (None)
Truthy(x) == x = "true"

(***************************************************************************)
(* Remote client.  A reply is what urlopen did: kind is                    *)
(*   "2xx"        a response with a 2xx status,                            *)
(*   "http_error" urllib.error.HTTPError (non-2xx status),                 *)
(*   "refused"    urllib.error.URLError (connection refused),              *)
(*   "timeout"    the socket timed out,                                    *)
(*   "reset"      an OSError while the body is read,                       *)
(* parses says whether the body is valid JSON, body is the parsed JSON.    *)
(***************************************************************************)
Reply(kind, parses, body) == [kind |-> kind, parses |-> parses, body |-> body]

Returned(v) == [raised |-> FALSE, value |-> v]

Raised == [raised |-> TRUE, value |-> JsonNull]

Addons == {"draftwolf", "draftflow"}

\* The exception classes the last except clause of send_request lists.
CaughtKinds(addon) ==
    IF addon = "draftwolf" THEN {"refused", "timeout", "reset"}
    ELSE {"refused", "timeout"}

send_request(addon, reply) ==
    CASE reply.kind = "2xx" ->
            IF reply.parses THEN Returned(reply.body) ELSE Raised
      [] reply.kind = "http_error" ->
            IF reply.parses THEN Returned(reply.body)
            ELSE Returned(FailureShape("HTTP error code"))
      [] reply.kind \in CaughtKinds(addon) ->
            Returned(FailureShape(reply.kind))
      [] OTHER -> Raised

\* The endpoints both add-ons send requests to.
Endpoints == {"/draft/find-root", "/draft/commit", "/draft/history", "/draft/init"}

\* What urlopen may do for a request, over every failure mode.
ClientReplies ==
    { Reply("2xx", TRUE, [EmptyDict EXCEPT !.success = "true"]),
      Reply("2xx", TRUE, FailureShape("Not a project")),
      Reply("2xx", FALSE, JsonNull),
      Reply("http_error", TRUE, FailureShape("Not Found")),
      Reply("http_error", TRUE, EmptyDict),
      Reply("http_error", FALSE, JsonNull),
      Reply("refused", FALSE, JsonNull),
      Reply("timeout", FALSE, JsonNull),
      Reply("reset", FALSE, JsonNull) }

\* No call of send_request has been made yet.
Pending == [raised |-> FALSE, value |-> [EmptyDict EXCEPT !.shape = "pending"]]

(***************************************************************************)
(* Bounds and program constants.                                           *)
(***************************************************************************)
\* Changes of the run flag (register() / unregister() calls that change it)
\* in one run.
MaxFlips == 3

\* for _ in range(50)
SleepSteps == 50

\* len(uname) > 15
MaxUserLen == 15

\* uname[:12]
KeepUserLen == 12

\* A poller thread is started by every other change of the flag.
Threads == 1..((MaxFlips + 1) \div 2)

VARIABLES
    thread_running,   \* StatusCache.thread_running
    app_running,      \* StatusCache.app_running
    is_logged_in,     \* StatusCache.is_logged_in
    username,         \* StatusCache.username
    pc,               \* where each status_worker thread is
    sleep_i,          \* iterations of the sleep loop each thread has finished
    uname,            \* status_worker's local uname
    exc,              \* the request or call that raised, while in the handler
    flips,            \* times register() / unregister() changed the flag
    slept_cleared,    \* time.sleep(0.1) calls finished while the flag was clear
    cycle_ends,       \* the snapshots left at the end of the poll cycles so far
    recording,        \* whether cycle_ends is kept in this specification
    r_op,             \* the interactive operation that reads the snapshot
    r_pc,             \* how many of its reads it has made
    r_app,            \* its local app_running
    r_logged,         \* its local is_logged_in
    r_user,           \* its local username
    ui_requests,      \* endpoints the interactive thread has sent requests to
    now,              \* time.time(), in seconds
    root_cache,       \* RootCache.cache
    root_call,        \* the last call an operator made of get_project_root
    sr_addon,         \* the add-on whose send_request is called
    sr_endpoint,      \* its endpoint argument
    sr_reply,         \* what urlopen does for the call
    sr_result,        \* what the call did: pending, or returned / raised
    filepath,         \* bpy.data.filepath
    last_draw_time,   \* StatusCache.last_draw_time
    cached_is_saved,        \* StatusCache.cached_is_saved
    cached_is_initialized,  \* StatusCache.cached_is_initialized
    cached_filepath,  \* StatusCache.cached_filepath
    full_history,     \* SafeVersionList.full_history
    show_versions,    \* SafeVersionList.show_versions
    last_fetch_time,  \* SafeVersionList.last_fetch_time
    current_filepath, \* SafeVersionList.current_filepath
    draw_seq,         \* flips at every call of DF_PT_MainPanel.draw
    draw_raised,      \* whether the last call of draw ended in an exception
    nm_file,          \* the file path the name functions are applied to
    nm_origin,        \* how that path was built, and from which canonical path
    nm_recovered,     \* recover_original_filepath of it, once computed
    nm_target,        \* load_version_history's target_lower of it, once computed
    nm_filtered,      \* load_version_history of it over a history, once computed
    nm_copy,          \* the path a copy-aside retrieve picked with it open
    svc_history,      \* the service's version records of the project, newest first
    svc_projects,     \* the directories the service has initialized a project in
    op_call,          \* the last call of a mutating operator and how it went
    lvh_call          \* the last recorded call of load_version_history

pollerVars ==
    <<thread_running, app_running, is_logged_in, username, pc, sleep_i, uname,
      exc, flips, slept_cleared, cycle_ends, recording>>

readerVars == <<r_op, r_pc, r_app, r_logged, r_user>>

rootVars == <<now, root_cache, root_call>>

clientVars == <<sr_addon, sr_endpoint, sr_reply, sr_result>>

drawVars ==
    <<last_draw_time, cached_is_saved, cached_is_initialized, cached_filepath,
      draw_seq, draw_raised>>

historyVars ==
    <<full_history, show_versions, last_fetch_time, current_filepath>>

panelVars == <<filepath, drawVars, historyVars>>

nameVars ==
    <<nm_file, nm_origin, nm_recovered, nm_target, nm_filtered, nm_copy>>

opsVars == <<svc_history, svc_projects, op_call, lvh_call>>

cacheVars == <<rootVars, clientVars, panelVars, nameVars, opsVars>>

uiVars == <<readerVars, ui_requests, cacheVars>>

vars == <<pollerVars, uiVars>>

snapshot == <<app_running, is_logged_in, username>>

LongUser == Str(Rep("a", MaxUserLen + 1))

\* What /health may answer.
HealthReplies ==
    { Reply("2xx", TRUE, [EmptyDict EXCEPT !.success = "true"]),
      Reply("2xx", TRUE, [EmptyDict EXCEPT !.success = "false"]),
      Reply("2xx", TRUE, JsonArray(<<Version("v0", {})>>)),
      Reply("2xx", FALSE, JsonNull),
      Reply("http_error", TRUE, FailureShape("down")),
      Reply("http_error", FALSE, JsonNull),
      Reply("refused", FALSE, JsonNull),
      Reply("timeout", FALSE, JsonNull) }

\* What /auth/status may answer.
AuthReplies ==
    { Reply("2xx", TRUE, [EmptyDict EXCEPT !.success = "true",
                              !.loggedIn = "true", !.username = LongUser]),
      Reply("2xx", TRUE, [EmptyDict EXCEPT !.success = "true",
                              !.loggedIn = "true", !.username = Str(Rep("b", MaxUserLen))]),
      Reply("2xx", TRUE, [EmptyDict EXCEPT !.success = "true",
                              !.loggedIn = "true", !.username = NoneVal]),
      Reply("2xx", TRUE, [EmptyDict EXCEPT !.success = "true",
                              !.loggedIn = "true"]),
      Reply("2xx", TRUE, [EmptyDict EXCEPT !.success = "true",
                              !.loggedIn = "false"]),
      Reply("2xx", FALSE, JsonNull),
      Reply("refused", FALSE, JsonNull) }

\* The username stored as it was reported.
Truncate_keeps(u) == u

\* uname[:12] + "..." when len(uname) > 15
Truncate(u) ==
    IF Len(u.s) > MaxUserLen
    THEN Str(SubSeq(u.s, 1, KeepUserLen) \o <<".", ".", ".">>)
    ELSE u

\* auth_res.get('username', 'User')
GetUsername(body) ==
    IF body.username = AbsentVal THEN Str(<<"U", "s", "e", "r">>)
    ELSE body.username

\* res.get(...) raises AttributeError on a JSON value that is no object.
GetRaises(r) == r.raised \/ r.value.shape = "list"

Goto(t, label) == pc' = [pc EXCEPT ![t] = label]

\* The loop body is over: the snapshot it leaves is the cycle's result.
EnterSleep(t) ==
    /\ pc' = [pc EXCEPT ![t] = "sleep_check"]
    /\ sleep_i' = [sleep_i EXCEPT ![t] = 0]
    /\ cycle_ends' = IF recording
                     THEN cycle_ends \cup {<<app_running', is_logged_in', username'>>}
                     ELSE cycle_ends

Raise(t, origin) ==
    /\ Goto(t, "except")
    /\ exc' = [exc EXCEPT ![t] = origin]

\* while StatusCache.thread_running:
WhileCheck(t) ==
    /\ pc[t] = "while"
    /\ UNCHANGED uiVars
    /\ Goto(t, IF thread_running THEN "health" ELSE "done")
    /\ UNCHANGED <<thread_running, app_running, is_logged_in, username,
                   sleep_i, uname, exc, flips, slept_cleared>>
    /\ UNCHANGED <<cycle_ends, recording>>

\* The health check going on to /auth/status whatever /health answered.
CheckHealth_always_auth(t) ==
    /\ pc[t] = "health"
    /\ UNCHANGED uiVars
    /\ \E reply \in HealthReplies :
          LET res == send_request("draftwolf", reply)
              is_running == res.value.shape = "dict" /\ Truthy(res.value.success)
          IN  IF GetRaises(res)
              THEN Raise(t, "health") /\ UNCHANGED app_running
              ELSE /\ app_running' = is_running
                   /\ Goto(t, "auth")
                   /\ UNCHANGED exc
    /\ UNCHANGED <<thread_running, is_logged_in, username, sleep_i, uname,
                   flips, slept_cleared>>
    /\ UNCHANGED <<cycle_ends, recording>>

\* res = send_request('/health'); StatusCache.app_running = is_running
CheckHealth(t) ==
    /\ pc[t] = "health"
    /\ UNCHANGED uiVars
    /\ \E reply \in HealthReplies :
          LET res == send_request("draftwolf", reply)
              is_running == res.value.shape = "dict" /\ Truthy(res.value.success)
          IN  IF GetRaises(res)
              THEN Raise(t, "health") /\ UNCHANGED app_running
              ELSE /\ app_running' = is_running
                   /\ Goto(t, IF is_running THEN "auth" ELSE "clear_login")
                   /\ UNCHANGED exc
    /\ UNCHANGED <<thread_running, is_logged_in, username, sleep_i, uname,
                   flips, slept_cleared>>
    /\ UNCHANGED <<cycle_ends, recording>>

\* auth_res = send_request('/auth/status'); StatusCache.is_logged_in = ...
CheckLogin(t) ==
    /\ pc[t] = "auth"
    /\ UNCHANGED uiVars
    /\ \E reply \in AuthReplies :
          LET auth_res == send_request("draftwolf", reply)
          IN  IF GetRaises(auth_res)
              THEN Raise(t, "auth") /\ UNCHANGED <<is_logged_in, uname>>
              ELSE IF auth_res.value.shape = "dict" /\ Truthy(auth_res.value.loggedIn)
                   THEN /\ is_logged_in' = TRUE
                        /\ uname' = [uname EXCEPT ![t] = GetUsername(auth_res.value)]
                        /\ Goto(t, "set_username")
                        /\ UNCHANGED exc
                   ELSE /\ is_logged_in' = FALSE
                        /\ Goto(t, "clear_username")
                        /\ UNCHANGED <<exc, uname>>
    /\ UNCHANGED <<thread_running, app_running, username, sleep_i, flips,
                   slept_cleared>>
    /\ UNCHANGED <<cycle_ends, recording>>

\* if len(uname) > 15: uname = uname[:12] + "..."; StatusCache.username = uname
SetUsername(t) ==
    /\ pc[t] = "set_username"
    /\ UNCHANGED uiVars
    /\ IF uname[t].k # "str"
       THEN /\ Raise(t, "len")
            /\ UNCHANGED <<app_running, is_logged_in, username, sleep_i,
                           cycle_ends>>
       ELSE /\ username' = Truncate(uname[t])
            /\ UNCHANGED <<app_running, is_logged_in, exc>>
            /\ EnterSleep(t)
    /\ uname' = [uname EXCEPT ![t] = NoneVal]
    /\ UNCHANGED <<thread_running, flips, slept_cleared, recording>>

\* else: StatusCache.is_logged_in = False
ClearLogin(t) ==
    /\ pc[t] = "clear_login"
    /\ UNCHANGED uiVars
    /\ is_logged_in' = FALSE
    /\ Goto(t, "clear_username_down")
    /\ UNCHANGED <<thread_running, app_running, username, sleep_i, uname, exc,
                   flips, slept_cleared>>
    /\ UNCHANGED <<cycle_ends, recording>>

\* StatusCache.username = None (after is_logged_in = False, in either else)
ClearUsername(t) ==
    /\ pc[t] \in {"clear_username", "clear_username_down"}
    /\ UNCHANGED uiVars
    /\ username' = NoneVal
    /\ UNCHANGED <<thread_running, app_running, is_logged_in, uname, exc,
                   flips, slept_cleared, recording>>
    /\ EnterSleep(t)

\* Mutant: the exception is not caught and ends the thread.
HandleException_propagates(t) ==
    /\ pc[t] = "except"
    /\ Goto(t, "done")
    /\ UNCHANGED <<thread_running, app_running, is_logged_in, username, sleep_i,
                   uname, exc, flips, slept_cleared, cycle_ends, recording,
                   uiVars>>

\* except Exception as e: StatusCache.app_running = False
HandleException(t) ==
    /\ pc[t] = "except"
    /\ UNCHANGED uiVars
    /\ app_running' = FALSE
    /\ exc' = [exc EXCEPT ![t] = "none"]
    /\ UNCHANGED <<thread_running, is_logged_in, username, uname, flips,
                   slept_cleared, recording>>
    /\ EnterSleep(t)

\* Mutant: the sleep loop does not test the flag (one long sleep).
BreakNow_never == FALSE

\* if not StatusCache.thread_running: break
BreakNow == ~thread_running

\* for _ in range(50): the test of the first iteration
SleepCheck(t) ==
    /\ pc[t] = "sleep_check"
    /\ UNCHANGED uiVars
    /\ Goto(t, IF BreakNow THEN "while" ELSE "sleeping")
    /\ UNCHANGED <<thread_running, app_running, is_logged_in, username, sleep_i,
                   uname, exc, flips, slept_cleared>>
    /\ UNCHANGED <<cycle_ends, recording>>

\* time.sleep(0.1) returns; then the for loop ends, or the next iteration
\* tests the flag and breaks or sleeps again
Sleeping(t) ==
    /\ pc[t] = "sleeping"
    /\ UNCHANGED uiVars
    /\ IF sleep_i[t] + 1 < SleepSteps /\ ~BreakNow
       THEN /\ sleep_i' = [sleep_i EXCEPT ![t] = @ + 1]
            /\ UNCHANGED pc
       ELSE /\ Goto(t, "while")
            /\ sleep_i' = [sleep_i EXCEPT ![t] = 0]
    /\ slept_cleared' =
          [slept_cleared EXCEPT ![t] = IF thread_running THEN @ ELSE @ + 1]
    /\ UNCHANGED <<thread_running, app_running, is_logged_in, username, uname,
                   exc, flips>>
    /\ UNCHANGED <<cycle_ends, recording>>

status_worker(t) ==
    \/ WhileCheck(t)
    \/ CheckHealth(t)
    \/ CheckLogin(t)
    \/ SetUsername(t)
    \/ ClearLogin(t)
    \/ ClearUsername(t)
    \/ HandleException(t)
    \/ SleepCheck(t)
    \/ Sleeping(t)

\* The thread register() would start: the lowest one not started yet.
NextThread == CHOOSE t \in Threads : pc[t] = "idle" /\ \A u \in Threads : u < t => pc[u] # "idle"

\* register(): if not StatusCache.thread_running: start status_worker
register ==
    /\ flips < MaxFlips
    /\ IF ~thread_running
       THEN /\ thread_running' = TRUE
            /\ Goto(NextThread, "while")
            /\ slept_cleared' = [t \in Threads |-> 0]
            /\ flips' = flips + 1
       ELSE UNCHANGED <<thread_running, pc, slept_cleared, flips>>
    /\ UNCHANGED <<app_running, is_logged_in, username, sleep_i, uname, exc,
                   cycle_ends, recording, uiVars>>

\* unregister(): StatusCache.thread_running = False, no join()
unregister ==
    /\ flips < MaxFlips \/ ~thread_running
    /\ flips' = IF thread_running THEN flips + 1 ELSE flips
    /\ thread_running' = FALSE
    /\ UNCHANGED <<app_running, is_logged_in, username, pc, sleep_i, uname,
                   exc, slept_cleared, cycle_ends, recording, uiVars>>

\* The module as loaded: class attributes of StatusCache.
InitPoller ==
    /\ thread_running = FALSE
    /\ app_running = FALSE
    /\ is_logged_in = FALSE
    /\ username = NoneVal
    /\ pc = [t \in Threads |-> "idle"]
    /\ sleep_i = [t \in Threads |-> 0]
    /\ uname = [t \in Threads |-> NoneVal]
    /\ exc = [t \in Threads |-> "none"]
    /\ flips = 0
    /\ slept_cleared = [t \in Threads |-> 0]
    /\ cycle_ends = {<<FALSE, FALSE, NoneVal>>}
    /\ recording = FALSE

\* No interactive operation has read the snapshot or sent a request.
InitReader ==
    /\ r_op = "none"
    /\ r_pc = 0
    /\ r_app = FALSE
    /\ r_logged = FALSE
    /\ r_user = NoneVal
    /\ ui_requests = {}

\* The state register() leaves: the flag set and one status_worker started.
InitStarted ==
    /\ thread_running = TRUE
    /\ app_running = FALSE
    /\ is_logged_in = FALSE
    /\ username = NoneVal
    /\ pc = [t \in Threads |-> IF t = 1 THEN "while" ELSE "idle"]
    /\ sleep_i = [t \in Threads |-> 0]
    /\ uname = [t \in Threads |-> NoneVal]
    /\ exc = [t \in Threads |-> "none"]
    /\ flips = 1
    /\ slept_cleared = [t \in Threads |-> 0]
    /\ cycle_ends = {<<FALSE, FALSE, NoneVal>>}
    /\ recording = TRUE

(***************************************************************************)
(* Root cache.  A file path is a record [dir, name]; the empty path has    *)
(* both empty.  Time is in whole seconds since the epoch.                  *)
(***************************************************************************)
\* RootCache.duration = 30.0
RootTtl == 30

\* time.time() when the module is loaded
Epoch == 100

\* The clock is read at multiples of ClockStep seconds after Epoch.
ClockStep == 5

\* Steps the clock advances in one run of the root cache.
MaxTicks == 6

NoFile == [dir |-> "", name |-> <<>>]

Files ==
    { NoFile,
      [dir |-> "/p", name |-> <<"a">> \o Blend],
      [dir |-> "/p", name |-> <<"b">> \o Blend],
      [dir |-> "/q", name |-> <<"c">> \o Blend] }

\* os.path.dirname(filepath)
dirname(f) == f.dir

Dirs == {dirname(f) : f \in Files \ {NoFile}}

\* No entry of RootCache.cache for a directory.
NoEntry == [has |-> FALSE, root |-> "None", time |-> 0]

\* {'root': root, 'time': current_time}
Entry(root, time) == [has |-> TRUE, root |-> root, time |-> time]

\* What /draft/find-root may answer.
FindRootReplies ==
    { Reply("2xx", TRUE, [EmptyDict EXCEPT !.success = "true", !.root = "/proj"]),
      Reply("2xx", TRUE, [EmptyDict EXCEPT !.success = "false"]),
      Reply("2xx", FALSE, JsonNull),
      Reply("http_error", FALSE, JsonNull),
      Reply("refused", FALSE, JsonNull) }

\* root = res.get('root') if res else None
GetRoot(v) ==
    IF v.shape = "dict" /\ v.root # "<absent>" THEN v.root ELSE "None"

\* if current_time - entry['time'] < RootCache.duration
Live(entry, t) == entry.has /\ t - entry.time < RootTtl

\* bool(root)
HasRoot(root) == root \notin {"None", ""}

\* get_project_root(filepath) at time t with RootCache.cache = cache, when
\* /draft/find-root would answer reply: whether a request is sent, whether
\* the call raises, what it returns and the cache it leaves.
get_project_root(f, cache, t, reply) ==
    IF f = NoFile
    THEN [sent |-> 0, raised |-> FALSE, result |-> "None", cache |-> cache]
    ELSE IF Live(cache[dirname(f)], t)
    THEN [sent |-> 0, raised |-> FALSE, result |-> cache[dirname(f)].root,
          cache |-> cache]
    ELSE LET res == send_request("draftwolf", reply)
             root == GetRoot(res.value)
         IN  IF GetRaises(res)
             THEN [sent |-> 1, raised |-> TRUE, result |-> "None", cache |-> cache]
             ELSE [sent |-> 1, raised |-> FALSE, result |-> root,
                   cache |-> [cache EXCEPT ![dirname(f)] = Entry(root, t)]]

\* The endpoints a call that sent n find-root requests has added.
SentFindRoot(n) == IF n > 0 THEN {"/draft/find-root"} ELSE {}

\* A call of get_project_root by an operator of the add-on.
CallGetProjectRoot(f) ==
    /\ \E reply \in FindRootReplies :
         LET r == get_project_root(f, root_cache, now, reply)
         IN  /\ root_cache' = r.cache
             /\ ui_requests' = ui_requests \cup SentFindRoot(r.sent)
             /\ root_call' = [seq |-> 1 - root_call.seq, dir |-> dirname(f),
                              sent |-> r.sent, raised |-> r.raised,
                              result |-> r.result]
    /\ UNCHANGED <<now, pollerVars, readerVars, clientVars, nameVars, opsVars, panelVars>>

\* The clock advances by one step, at most h steps in a run.
Tick(h) ==
    /\ now < Epoch + ClockStep * h
    /\ now' = now + ClockStep
    /\ UNCHANGED <<root_cache, root_call, ui_requests, pollerVars, readerVars,
                   clientVars, nameVars, opsVars, panelVars>>

\* RootCache.cache = {}
InitRoot ==
    /\ now = Epoch
    /\ root_cache = [d \in Dirs |-> NoEntry]
    /\ root_call = [seq |-> 0, dir |-> "", sent |-> 0, raised |-> FALSE,
                    result |-> "None"]

\* A path variable that holds None.
NonePath == [dir |-> "<none>", name |-> <<>>]

\* SafeVersionList.full_history = None
NoHistory == [loaded |-> FALSE, for |-> NonePath, versions |-> <<>>]

\* A loaded history: the list versions, computed for the file f.
History(f, versions) == [loaded |-> TRUE, for |-> f, versions |-> versions]

\* The class attributes of StatusCache and SafeVersionList, and Blender
\* started with no file open.
InitPanel ==
    /\ filepath = NoFile
    /\ last_draw_time = 0
    /\ cached_is_saved = FALSE
    /\ cached_is_initialized = FALSE
    /\ cached_filepath = NonePath
    /\ full_history = NoHistory
    /\ show_versions = FALSE
    /\ last_fetch_time = 0
    /\ current_filepath = NonePath
    /\ draw_seq = 0
    /\ draw_raised = FALSE

(***************************************************************************)
(* Version history of the panel.                                           *)
(***************************************************************************)
\* SafeVersionList.fetch_interval = 10.0
FetchInterval == 10

\* current_time - StatusCache.last_draw_time < 0.5, in tenths of a second
DrawThrottleTenths == 5

\* Steps the clock advances in one run of the panel.
MaxDrawTicks == 3

\* recover_original_filepath(filepath)
recover_original_filepath(f) ==
    LET name == splitext(basename(f)).name
        ext == splitext(basename(f)).ext
        temp == Before(name, Len(name) - Len(Retrieved) + 1)
    IN  IF \/ EndsWith(name, RetrievedVersion)
           \/ Contains(name, RetrievedVersion \o <<"-">>)
        THEN Path(f.dir, Before(name, Find(name, RetrievedVersion)) \o ext)
        ELSE IF EndsWith(name, Retrieved) /\ Contains(temp, <<"-">>)
        THEN Path(f.dir, Before(temp, RFind(temp, <<"-">>)) \o ext)
        ELSE f

\* "".join(c for c in version_str if c.isalnum() or c in "._-")
CleanVersionStr(version_str) ==
    SelectSeq(version_str, LAMBDA c : IsAlnum(c) \/ c \in {".", "_", "-"})

\* Iterations of the counter loop that are followed.
MaxCounter == 3

\* The test of the counter loop never finding the open file.
IsOpenPath_never(final_path, f) == FALSE

\* if final_path == filepath
IsOpenPath(final_path, f) == final_path = f

\* The while True loop of OBJECT_OT_DfRetrieve.execute of draftflow_addon.py,
\* entered with final_path and counter: the path it leaves with, or the one
\* it holds when MaxCounter iterations have not ended it.
RECURSIVE counter_loop(_, _, _, _, _)
counter_loop(f, stem, ext, final_path, counter) ==
    IF IsOpenPath(final_path, f)
    THEN IF counter = MaxCounter
         THEN [ended |-> FALSE, path |-> final_path]
         ELSE counter_loop(f, stem, ext,
                           Path(f.dir,
                                stem \o <<"-", (<<"1", "2", "3", "4", "5", "6",
                                                  "7", "8", "9">>)[counter + 1]>>
                                     \o ext),
                           counter + 1)
    ELSE [ended |-> TRUE, path |-> final_path]

\* The path OBJECT_OT_DfRetrieve.execute of draftflow_addon.py copies the
\* extracted version to, for the open file f and the version string:
\* [file]-[version]-retrieved, with a counter appended while that is the
\* open file.
final_path(f, version_str) ==
    LET ext == splitext(basename(f)).ext
        req_filepath == recover_original_filepath(f)
        base_name_original == splitext(basename(req_filepath)).name
        stem == base_name_original \o <<"-">> \o CleanVersionStr(version_str)
                  \o Retrieved
    IN  counter_loop(f, stem, ext, Path(f.dir, stem \o ext), 0)

\* The base name of that path.
retrieved_filename(f, version_str) == basename(final_path(f, version_str).path)

\* target_file with the suffixes stripped whether or not a marker was found.
target_file_always_strips(filename) ==
    LET name == splitext(filename).name
        ext == splitext(filename).ext
        clean_name ==
            IF Contains(Lower(name), SpacedMarker)
            THEN Before(name, Find(Lower(name), SpacedMarker))
            ELSE SubNumberSuffix(SubVersionSuffix(Remove(name, Retrieved)))
    IN  clean_name \o ext

\* load_version_history's target_file for the base name filename: the name
\* cut at ' retrieved version' (found in any case), or else with every
\* '-retrieved' removed and then a version suffix and a number suffix
\* stripped, and the extension put back.
target_file(filename) ==
    LET name == splitext(filename).name
        ext == splitext(filename).ext
        clean_name ==
            IF Contains(Lower(name), SpacedMarker)
            THEN Before(name, Find(Lower(name), SpacedMarker))
            ELSE IF Contains(name, Retrieved)
            THEN SubNumberSuffix(SubVersionSuffix(Remove(name, Retrieved)))
            ELSE name
    IN  clean_name \o ext

\* target_lower = target_file.lower()
target_lower(filename) == Lower(target_file(filename))

\* What /draft/history may answer.
HistoryReplies ==
    { Reply("2xx", TRUE,
            JsonArray(<<Version("v1", {Path("/p", <<"a">> \o Blend)}),
                        Version("v2", {Path("/p", <<"A">> \o Blend),
                                       Path("/q", <<"c">> \o Blend)})>>)),
      Reply("2xx", TRUE, JsonArray(<<>>)),
      Reply("2xx", FALSE, JsonNull),
      Reply("refused", FALSE, JsonNull) }

\* bool(v) of a JSON document: None, [] and {} are false.
NotEmpty(v) ==
    CASE v.shape = "null" -> FALSE
      [] v.shape = "list" -> Len(v.elems) > 0
      [] OTHER -> v # EmptyDict

\* HasFile comparing the base names as they are, without .lower().
HasFile_exact(v, target) == \E f_path \in v.files : basename(f_path) = target

\* any(os.path.basename(f_path).lower() == target_lower for f_path in files)
HasFile(v, target) == \E f_path \in v.files : Lower(basename(f_path)) = target

\* load_version_history sending /draft/history before it looks at the root.
load_version_history_asks_first(f, cache, t, rootReply, histReply) ==
    IF f = NoFile
    THEN [raised |-> FALSE, result |-> <<>>, cache |-> cache, sent |-> {}]
    ELSE LET r == get_project_root(f, cache, t, rootReply)
             h == send_request("draftwolf", histReply)
             sentRoot == SentFindRoot(r.sent)
             sentBoth == sentRoot \cup {"/draft/history"}
             target == target_lower(basename(f))
         IN  IF r.raised
             THEN [raised |-> TRUE, result |-> <<>>, cache |-> r.cache,
                   sent |-> sentRoot]
             ELSE IF h.raised
             THEN [raised |-> TRUE, result |-> <<>>, cache |-> r.cache,
                   sent |-> sentBoth]
             ELSE IF ~HasRoot(r.result) \/ ~NotEmpty(h.value)
             THEN [raised |-> FALSE, result |-> <<>>, cache |-> r.cache,
                   sent |-> sentBoth]
             ELSE IF h.value.shape = "dict"
             THEN [raised |-> TRUE, result |-> <<>>, cache |-> r.cache,
                   sent |-> sentBoth]
             ELSE [raised |-> FALSE,
                   result |-> SelectSeq(h.value.elems,
                                        LAMBDA v : HasFile(v, target)),
                   cache |-> r.cache, sent |-> sentBoth]

\* load_version_history(filepath) at time t with RootCache.cache = cache,
\* when /draft/find-root and /draft/history would answer rootReply and
\* histReply.  Iterating a JSON object yields its keys, and a str has no
\* .get, so a history that is a non-empty object raises.
load_version_history(f, cache, t, rootReply, histReply) ==
    IF f = NoFile
    THEN [raised |-> FALSE, result |-> <<>>, cache |-> cache, sent |-> {}]
    ELSE LET r == get_project_root(f, cache, t, rootReply)
             h == send_request("draftwolf", histReply)
             sentRoot == SentFindRoot(r.sent)
             sentBoth == sentRoot \cup {"/draft/history"}
             target == target_lower(basename(f))
         IN  IF r.raised
             THEN [raised |-> TRUE, result |-> <<>>, cache |-> r.cache,
                   sent |-> sentRoot]
             ELSE IF ~HasRoot(r.result)
             THEN [raised |-> FALSE, result |-> <<>>, cache |-> r.cache,
                   sent |-> sentRoot]
             ELSE IF h.raised
             THEN [raised |-> TRUE, result |-> <<>>, cache |-> r.cache,
                   sent |-> sentBoth]
             ELSE IF ~NotEmpty(h.value)
             THEN [raised |-> FALSE, result |-> <<>>, cache |-> r.cache,
                   sent |-> sentBoth]
             ELSE IF h.value.shape = "dict"
             THEN [raised |-> TRUE, result |-> <<>>, cache |-> r.cache,
                   sent |-> sentBoth]
             ELSE [raised |-> FALSE,
                   result |-> SelectSeq(h.value.elems,
                                        LAMBDA v : HasFile(v, target)),
                   cache |-> r.cache, sent |-> sentBoth]

\* The record of an operator's load_version_history(f) call: whether the
\* file path was empty or get_project_root returned no root, whether
\* /draft/history came back as the failure shape, whether the call raised,
\* whether it returned an empty sequence and whether it sent /draft/history.
LvhCall(f, cache, t, rootReply, histReply) ==
    LET r == get_project_root(f, cache, t, rootReply)
        h == send_request("draftwolf", histReply)
        l == load_version_history(f, cache, t, rootReply, histReply)
    IN  [called |-> TRUE,
         no_root |-> f = NoFile \/ (~r.raised /\ ~HasRoot(r.result)),
         hist_failed |-> /\ "/draft/history" \in l.sent
                         /\ ~h.raised
                         /\ h.value.shape = "dict"
                         /\ h.value.success = "false"
                         /\ h.value.error # "<absent>",
         raised |-> l.raised,
         empty |-> ~l.raised /\ l.result = <<>>,
         asked_history |-> "/draft/history" \in l.sent]

\* The answers to draw from for a request: all of them when the request is
\* sent, any single one when it is not.
Answers(sent, replies) ==
    IF sent THEN replies ELSE {CHOOSE reply \in replies : TRUE}

\* Whether get_project_root(f) sends a request at time t.
SendsFindRoot(f, cache, t) ==
    get_project_root(f, cache, t, CHOOSE reply \in FindRootReplies : TRUE).sent = 1

\* The throttle test passing whatever the time of the last fetch.
IntervalElapsed_always(current_time, last) == current_time >= last

\* if current_time - SafeVersionList.last_fetch_time >
\*        SafeVersionList.fetch_interval
IntervalElapsed(current_time, last) == current_time - last > FetchInterval

\* DF_PT_MainPanel.draw.  The status it reads (check_app_status,
\* check_login_status) changes no state.
draw ==
    /\ draw_seq' = 1 - draw_seq
    /\ LET current_time == now
           last == last_fetch_time
           cached == /\ 10 * (current_time - last_draw_time) < DrawThrottleTenths
                     /\ cached_filepath = filepath
       IN
       \E rootReply1 \in
             Answers(~cached /\ SendsFindRoot(filepath, root_cache, current_time),
                     FindRootReplies) :
         LET r == IF cached
                  THEN [sent |-> 0, raised |-> FALSE, result |-> "None",
                        cache |-> root_cache]
                  ELSE get_project_root(filepath, root_cache, current_time,
                                        rootReply1)
             is_saved == IF cached THEN cached_is_saved ELSE filepath # NoFile
             is_initialized ==
                 IF cached THEN cached_is_initialized ELSE HasRoot(r.result)
             kept == IF filepath # current_filepath THEN NoHistory
                     ELSE full_history
             fetch == /\ ~r.raised
                      /\ ~kept.loaded
                      /\ is_initialized
                      /\ show_versions
                      /\ IntervalElapsed(current_time, last)
         IN
         \E rootReply2 \in
               Answers(fetch /\ SendsFindRoot(filepath, r.cache, current_time),
                       FindRootReplies),
            histReply \in Answers(fetch, HistoryReplies) :
           LET l == load_version_history(filepath, r.cache, current_time,
                                         rootReply2, histReply)
           IN  IF r.raised
               THEN /\ draw_raised' = TRUE
                    /\ root_cache' = r.cache
                    /\ ui_requests' = ui_requests \cup SentFindRoot(r.sent)
                    /\ UNCHANGED <<last_draw_time, cached_is_saved,
                                   cached_is_initialized, cached_filepath,
                                   historyVars>>
               ELSE /\ IF cached
                       THEN UNCHANGED <<last_draw_time, cached_is_saved,
                                        cached_is_initialized, cached_filepath>>
                       ELSE /\ last_draw_time' = current_time
                            /\ cached_is_saved' = is_saved
                            /\ cached_is_initialized' = is_initialized
                            /\ cached_filepath' = filepath
                    /\ UNCHANGED show_versions
                    /\ IF ~is_initialized
                       THEN /\ draw_raised' = FALSE
                            /\ root_cache' = r.cache
                            /\ ui_requests' =
                                  ui_requests \cup SentFindRoot(r.sent)
                            /\ UNCHANGED <<full_history, last_fetch_time,
                                           current_filepath>>
                       ELSE /\ current_filepath' = filepath
                            /\ IF fetch
                               THEN /\ last_fetch_time' = current_time
                                    /\ draw_raised' = l.raised
                                    /\ full_history' =
                                          IF l.raised THEN kept
                                          ELSE History(filepath, l.result)
                                    /\ root_cache' = l.cache
                                    /\ ui_requests' = ui_requests
                                          \cup SentFindRoot(r.sent) \cup l.sent
                               ELSE /\ draw_raised' = FALSE
                                    /\ full_history' = kept
                                    /\ root_cache' = r.cache
                                    /\ ui_requests' =
                                          ui_requests \cup SentFindRoot(r.sent)
                                    /\ UNCHANGED last_fetch_time
    /\ UNCHANGED <<filepath, now, root_call, pollerVars, readerVars, clientVars,
                   nameVars, opsVars>>

\* The user opens another file, or a new unsaved one.
OpenFile(f) ==
    /\ f # filepath
    /\ filepath' = f
    /\ UNCHANGED <<drawVars, historyVars, rootVars, clientVars, nameVars, opsVars, ui_requests,
                   pollerVars, readerVars>>

\* OBJECT_OT_DfToggleVersions.execute
ToggleVersions ==
    /\ show_versions' = ~show_versions
    /\ UNCHANGED <<full_history, last_fetch_time, current_filepath, filepath,
                   drawVars, rootVars, clientVars, nameVars, opsVars, ui_requests, pollerVars,
                   readerVars>>

\* No name function has been applied.
NotRecovered == [done |-> FALSE, value |-> NonePath]

NoTarget == [done |-> FALSE, value |-> <<>>, lower |-> <<>>]

NotFiltered == [done |-> FALSE, history |-> <<>>, raised |-> FALSE, value |-> <<>>]

InitNoName ==
    /\ nm_file = NoFile
    /\ nm_origin = [form |-> "plain", canon |-> NoFile]
    /\ nm_recovered = NotRecovered
    /\ nm_target = NoTarget
    /\ nm_filtered = NotFiltered
    /\ nm_copy = [done |-> FALSE, ended |-> FALSE, path |-> NonePath]

\* No call of load_version_history by an operator yet.
NoLvhCall ==
    [called |-> FALSE, no_root |-> FALSE, hist_failed |-> FALSE, raised |-> FALSE,
     empty |-> FALSE, asked_history |-> FALSE]

\* No operator has been called and the project has no version.
InitOps ==
    /\ svc_history = <<>>
    /\ svc_projects = {}
    /\ op_call = [seq |-> 0, op |-> "none", ok |-> FALSE, id |-> "none",
                  raised |-> FALSE, reloaded |-> FALSE, cancelled |-> FALSE,
                  same |-> FALSE, calls |-> <<>>, reopen_failed |-> FALSE,
                  reports |-> {}]
    /\ lvh_call = NoLvhCall

InitCaches ==
    /\ InitRoot
    /\ InitPanel
    /\ InitNoName
    /\ InitOps
    /\ sr_addon = "draftwolf"
    /\ sr_endpoint = "/health"
    /\ sr_reply = Reply("refused", FALSE, JsonNull)
    /\ sr_result = Pending

(***************************************************************************)
(* The service's side of the mutating requests, as the request / response  *)
(* contract describes it: a commit that succeeds adds a record holding the *)
(* committed file path, a rename that succeeds changes a record's label,   *)
(* and /draft/history returns the records.                                 *)
(***************************************************************************)
\* Versions committed in one run.
MaxCommits == 1

\* The ids the service assigns, in order.
IdOf(n) == <<"c1", "c2", "c3", "c4">>[n]

SvcCommit(svc, f, label) ==
    <<[id |-> IdOf(Len(svc) + 1), files |-> {f}, label |-> label]>> \o svc

SvcRename(svc, id, label) ==
    [i \in 1..Len(svc) |->
        IF svc[i].id = id THEN [svc[i] EXCEPT !.label = label] ELSE svc[i]]

\* What /draft/history may answer when the service holds svc.
HistoryRepliesOf(svc) ==
    { Reply("2xx", TRUE, JsonArray(svc)),
      Reply("2xx", FALSE, JsonNull),
      Reply("refused", FALSE, JsonNull) }

\* What a mutating request may be answered; the service has made the
\* change exactly when it answers success.
MutatingReplies ==
    { Reply("2xx", TRUE, [EmptyDict EXCEPT !.success = "true"]),
      Reply("2xx", TRUE, FailureShape("rejected")),
      Reply("2xx", FALSE, JsonNull),
      Reply("refused", FALSE, JsonNull) }

(***************************************************************************)
(* The operators of the panel.                                             *)
(***************************************************************************)
\* The files opened while the operators are used: a project file and a
\* restored copy of it.
OpsFiles ==
    { NoFile,
      Path("/p", Foo \o Blend),
      Path("/p", Foo \o <<"-", "v", "2">> \o Retrieved \o Blend) }

\* The record of one operator call: the request it is about, whether the
\* request was answered with success, the id of the version concerned,
\* whether the call raised, whether it reloaded the history and whether it
\* returned {'CANCELLED'}.  For a restore it also holds whether the restore target is the open file, the
\* calls made to the host application and to /draft/restore in their
\* order, whether opening the target failed and the messages reported.
OpCall(op, ok, id, raised, reloaded) ==
    [seq |-> 1 - op_call.seq, op |-> op, ok |-> ok, id |-> id,
     raised |-> raised, reloaded |-> reloaded, cancelled |-> FALSE,
     same |-> FALSE, calls |-> <<>>, reopen_failed |-> FALSE, reports |-> {}]

\* if res and res.get('success')
Succeeded(res) == res.value.shape = "dict" /\ Truthy(res.value.success)

\* The reload after a mutating request that succeeded:
\* SafeVersionList.full_history = load_version_history(filepath)
Reload(op, id, cache, svc, sent) ==
    \E rootReply \in Answers(SendsFindRoot(filepath, cache, now), FindRootReplies),
       histReply \in HistoryRepliesOf(svc) :
      \E l \in {load_version_history(filepath, cache, now, rootReply, histReply)} :
          /\ lvh_call' = LvhCall(filepath, cache, now, rootReply, histReply)
          /\ root_cache' = l.cache
          /\ ui_requests' = ui_requests \cup sent \cup l.sent
          /\ op_call' = OpCall(op, TRUE, id, l.raised, ~l.raised)
          /\ full_history' = IF l.raised THEN full_history
                             ELSE History(filepath, l.result)

\* An operator whose request raises or is answered without success.
Ends(op, raised, cache, sent) ==
    /\ op_call' = OpCall(op, FALSE, "none", raised, FALSE)
    /\ root_cache' = cache
    /\ ui_requests' = ui_requests \cup sent
    /\ UNCHANGED <<svc_history, lvh_call, full_history>>

\* An operator that returns {'CANCELLED'} before its request, or raises in
\* get_project_root.
Cancels(op, raised, cache, sent) ==
    /\ op_call' = [OpCall(op, FALSE, "none", raised, FALSE)
                     EXCEPT !.cancelled = ~raised]
    /\ root_cache' = cache
    /\ ui_requests' = ui_requests \cup sent
    /\ UNCHANGED <<svc_history, lvh_call, full_history>>

\* The restore operators discarding the open document before they return
\* {'CANCELLED'}.
RestoreCancels_releases(raised, cache, sent) ==
    /\ op_call' = [OpCall("restore", FALSE, "none", raised, FALSE)
                     EXCEPT !.cancelled = ~raised,
                            !.calls = <<"ReleaseLock">>]
    /\ root_cache' = cache
    /\ ui_requests' = ui_requests \cup sent
    /\ filepath' = NoFile
    /\ UNCHANGED <<svc_history, lvh_call, full_history>>

\* The restore operators returning {'CANCELLED'}: if not version_id, or
\* if not root.
RestoreCancels(raised, cache, sent) ==
    /\ Cancels("restore", raised, cache, sent)
    /\ UNCHANGED filepath

\* Whether an operator that needs a root gets as far as its own request.
Requests(r) == ~r.raised /\ HasRoot(r.result)

\* OBJECT_OT_DfCommit.execute, and OBJECT_OT_DfCommitLastSaved.execute,
\* which differs in not saving the .blend file first.
Commit ==
    /\ \E rootReply \in
             Answers(SendsFindRoot(filepath, root_cache, now), FindRootReplies) :
       \E r \in {get_project_root(filepath, root_cache, now, rootReply)} :
       \E reply \in Answers(filepath # NoFile /\ Requests(r), MutatingReplies) :
         LET res == send_request("draftwolf", reply)
             sentRoot == SentFindRoot(r.sent)
         IN  IF filepath = NoFile
             THEN Cancels("commit", FALSE, root_cache, {})
             ELSE IF ~Requests(r)
             THEN Cancels("commit", r.raised, r.cache, sentRoot)
             ELSE IF res.raised \/ ~Succeeded(res)
             THEN Ends("commit", res.raised, r.cache,
                       sentRoot \cup {"/draft/commit"})
             ELSE /\ Len(svc_history) < MaxCommits
                  /\ svc_history' = SvcCommit(svc_history, filepath, "Checkpoint A")
                  /\ Reload("commit", IdOf(Len(svc_history) + 1), r.cache,
                            svc_history', sentRoot \cup {"/draft/commit"})
    /\ UNCHANGED <<filepath, drawVars, show_versions, last_fetch_time,
                   current_filepath, now, root_call, svc_projects, clientVars,
                   nameVars,
                   pollerVars, readerVars>>

\* OBJECT_OT_DfRenameVersion.execute
RenameVersion(version_id, new_label) ==
    /\ \E rootReply \in
             Answers(SendsFindRoot(filepath, root_cache, now), FindRootReplies) :
       \E r \in {get_project_root(filepath, root_cache, now, rootReply)} :
       \E reply \in Answers(version_id # "" /\ new_label # "" /\ Requests(r),
                           MutatingReplies) :
         LET res == send_request("draftwolf", reply)
             sentRoot == SentFindRoot(r.sent)
         IN  IF version_id = "" \/ new_label = ""
             THEN Cancels("rename-version", FALSE, root_cache, {})
             ELSE IF ~Requests(r)
             THEN Cancels("rename-version", r.raised, r.cache, sentRoot)
             ELSE IF res.raised \/ ~Succeeded(res)
             THEN Ends("rename-version", res.raised, r.cache,
                       sentRoot \cup {"/draft/rename-version"})
             ELSE /\ svc_history' = SvcRename(svc_history, version_id, new_label)
                  /\ Reload("rename-version", version_id, r.cache, svc_history',
                            sentRoot \cup {"/draft/rename-version"})
    /\ UNCHANGED <<filepath, drawVars, show_versions, last_fetch_time,
                   current_filepath, now, root_call, svc_projects, clientVars,
                   nameVars,
                   pollerVars, readerVars>>

\* OBJECT_OT_DfRestoreQuick.execute and OBJECT_OT_DfRetrieve.execute, which
\* run the same statements.  read_homefile (ReleaseLock) closes the open
\* file when it is the restore target; open_mainfile (Reopen) may fail: after
\* a restore that succeeded the failure is reported, after one that failed
\* it is passed over.
Restore(version_id) ==
    /\ \E rootReply \in
             Answers(SendsFindRoot(filepath, root_cache, now), FindRootReplies) :
       \E r \in {get_project_root(filepath, root_cache, now, rootReply)},
          req_filepath \in {recover_original_filepath(filepath)} :
       \E reply \in Answers(version_id # "" /\ Requests(r), MutatingReplies),
          opens \in Answers(version_id # "" /\ Requests(r), BOOLEAN) :
         LET res == send_request("draftwolf", reply)
             sentRoot == SentFindRoot(r.sent)
             is_open_file == req_filepath = filepath
             closed == IF is_open_file THEN NoFile ELSE filepath
             release == IF is_open_file THEN <<"ReleaseLock">> ELSE <<>>
             Call(ok, raised, calls, reopen_failed, reports) ==
                 [OpCall("restore", ok, IF ok THEN version_id ELSE "none",
                         raised, FALSE)
                    EXCEPT !.same = is_open_file, !.calls = calls,
                           !.reopen_failed = reopen_failed,
                           !.reports = reports]
         IN  IF version_id = ""
             THEN RestoreCancels(FALSE, root_cache, {})
             ELSE IF ~Requests(r)
             THEN RestoreCancels(r.raised, r.cache, sentRoot)
             ELSE /\ root_cache' = r.cache
                  /\ ui_requests' = ui_requests \cup sentRoot
                                       \cup {"/draft/restore"}
                  /\ UNCHANGED <<svc_history, lvh_call, full_history>>
                  /\ IF res.raised
                     THEN /\ op_call' = Call(FALSE, TRUE,
                                             release \o <<"RemoteRestore">>,
                                             FALSE, {})
                          /\ filepath' = closed
                     ELSE IF ~Succeeded(res)
                     THEN /\ op_call' =
                               Call(FALSE, FALSE,
                                    release \o <<"RemoteRestore">>
                                      \o (IF is_open_file THEN <<"Reopen">>
                                          ELSE <<>>),
                                    is_open_file /\ ~opens,
                                    {"Restore failed"})
                          /\ filepath' = IF is_open_file /\ opens
                                         THEN req_filepath ELSE closed
                     ELSE /\ op_call' =
                               Call(TRUE, FALSE,
                                    release \o <<"RemoteRestore", "Reopen">>,
                                    ~opens,
                                    IF opens THEN {"Restored"}
                                    ELSE {"Restored",
                                          "Restored but failed to open"})
                          /\ filepath' = IF opens THEN req_filepath ELSE closed
    /\ UNCHANGED <<drawVars, show_versions, last_fetch_time, current_filepath,
                   now, root_call, svc_projects, clientVars, nameVars,
                   pollerVars, readerVars>>

\* What /draft/find-root answers for the directory d when the service is
\* reachable and has initialized projects: the root of d or no root.
FindRootRepliesOf(projects, d) ==
    IF d \in projects
    THEN {Reply("2xx", TRUE, [EmptyDict EXCEPT !.success = "true", !.root = d])}
    ELSE {Reply("2xx", TRUE, [EmptyDict EXCEPT !.success = "false"])}

\* OBJECT_OT_DfInit.execute with the file f open; the service has
\* initialized the directory exactly when it answers success.
DfInit(f) ==
    /\ \E reply \in Answers(f # NoFile, MutatingReplies) :
         LET res == send_request("draftwolf", reply)
         IN  IF f = NoFile
             THEN UNCHANGED <<ui_requests, svc_projects>>
             ELSE /\ ui_requests' = ui_requests \cup {"/draft/init"}
                  /\ svc_projects' =
                        IF ~res.raised /\ Succeeded(res)
                        THEN svc_projects \cup {dirname(f)}
                        ELSE svc_projects
    /\ UNCHANGED <<svc_history, op_call, lvh_call, rootVars, clientVars,
                   panelVars, nameVars, pollerVars, readerVars>>

\* get_project_root as draw calls it for the file f, answered by the service.
FindProjectRoot(f) ==
    /\ \E reply \in FindRootRepliesOf(svc_projects, dirname(f)) :
         LET r == get_project_root(f, root_cache, now, reply)
         IN  /\ root_cache' = r.cache
             /\ ui_requests' = ui_requests \cup SentFindRoot(r.sent)
             /\ root_call' = [seq |-> 1 - root_call.seq, dir |-> dirname(f),
                              sent |-> r.sent, raised |-> r.raised,
                              result |-> r.result]
    /\ UNCHANGED <<now, pollerVars, readerVars, clientVars, nameVars, opsVars,
                   panelVars>>

\* OBJECT_OT_DfRefreshVersions.execute; len() of the history follows the
\* reload, so a reload that raises assigns nothing.
RefreshVersions ==
    /\ IF filepath = NoFile
       THEN UNCHANGED <<lvh_call, root_cache, ui_requests, full_history>>
       ELSE \E rootReply \in
                 Answers(SendsFindRoot(filepath, root_cache, now), FindRootReplies),
               histReply \in HistoryRepliesOf(svc_history) :
            \E l \in {load_version_history(filepath, root_cache, now,
                                           rootReply, histReply)} :
                  /\ lvh_call' = LvhCall(filepath, root_cache, now, rootReply,
                                         histReply)
                  /\ root_cache' = l.cache
                  /\ ui_requests' = ui_requests \cup l.sent
                  /\ full_history' = IF l.raised THEN full_history
                                     ELSE History(filepath, l.result)
    /\ UNCHANGED <<filepath, drawVars, show_versions, last_fetch_time,
                   current_filepath, now, root_call, svc_projects, clientVars,
                   nameVars,
                   svc_history, op_call, pollerVars, readerVars>>

(***************************************************************************)
(* Interactive thread: the operations that read the status snapshot.  Each *)
(* attribute read is one step; the poller may run between two of them.     *)
(***************************************************************************)
\* return StatusCache.app_running  /  app_running = StatusCache.app_running
ReadAppRunning(op) ==
    /\ r_op = "none" \/ r_pc = 3
    /\ r_op' = op
    /\ r_pc' = 1
    /\ r_app' = app_running
    /\ r_logged' = FALSE
    /\ r_user' = NoneVal

\* StatusCache.is_logged_in, the first read of check_login_status
ReadIsLoggedIn(op) ==
    /\ r_op = op /\ r_pc = 1
    /\ r_pc' = 2
    /\ r_logged' = is_logged_in
    /\ UNCHANGED <<r_op, r_app, r_user>>

\* StatusCache.username, the second read of check_login_status
ReadUsername(op) ==
    /\ r_op = op /\ r_pc = 2
    /\ r_pc' = 3
    /\ r_user' = username
    /\ UNCHANGED <<r_op, r_app, r_logged>>

\* app_running = check_app_status()
check_app_status ==
    /\ ReadAppRunning("draw")
    /\ UNCHANGED <<pollerVars, ui_requests, cacheVars>>

\* is_logged_in, username = check_login_status()
check_login_status ==
    /\ ReadIsLoggedIn("draw") \/ ReadUsername("draw")
    /\ UNCHANGED <<pollerVars, ui_requests, cacheVars>>

\* Mutant: the operator asks the service itself and stores the answer.
RefreshStatus_sync ==
    /\ r_op = "none" \/ r_pc = 3
    /\ \E reply \in HealthReplies :
          LET res == send_request("draftwolf", reply)
          IN  /\ ~GetRaises(res)
              /\ app_running' = (res.value.shape = "dict" /\ Truthy(res.value.success))
    /\ ui_requests' = ui_requests \cup {"/health"}
    /\ r_op' = "refresh_status"
    /\ r_pc' = 3
    /\ r_app' = app_running'
    /\ r_logged' = is_logged_in
    /\ r_user' = username
    /\ UNCHANGED <<thread_running, is_logged_in, username, pc, sleep_i, uname,
                   exc, flips, slept_cleared, cycle_ends, recording, cacheVars>>

\* OBJECT_OT_DfRefreshStatus.execute: three reads of StatusCache
RefreshStatus ==
    /\ \/ ReadAppRunning("refresh_status")
       \/ ReadIsLoggedIn("refresh_status")
       \/ ReadUsername("refresh_status")
    /\ UNCHANGED <<pollerVars, ui_requests, cacheVars>>

NextStatus ==
    \/ \E t \in Threads : status_worker(t)
    \/ check_app_status
    \/ check_login_status
    \/ RefreshStatus

InitStatus == InitStarted /\ InitReader /\ InitCaches

SpecStatus == InitStatus /\ [][NextStatus]_vars

NextPoller ==
    \/ register
    \/ unregister
    \/ \E t \in Threads : status_worker(t)

InitModule == InitPoller /\ InitReader /\ InitCaches

SpecPoller == InitModule /\ [][NextPoller]_vars

FairPoller == SpecPoller /\ \A t \in Threads : WF_vars(status_worker(t))

\* One call of send_request, from any caller.
CallSendRequest ==
    /\ sr_result = Pending
    /\ sr_result' = send_request(sr_addon, sr_reply)
    /\ UNCHANGED <<sr_addon, sr_endpoint, sr_reply, rootVars, ui_requests,
                   pollerVars, readerVars, panelVars, nameVars, opsVars>>

InitClient ==
    /\ InitPoller
    /\ InitReader
    /\ InitRoot
    /\ InitPanel
    /\ InitNoName
    /\ InitOps
    /\ sr_addon \in Addons
    /\ sr_endpoint \in Endpoints
    /\ sr_reply \in ClientReplies
    /\ sr_result = Pending

NextClient == CallSendRequest

SpecClient == InitClient /\ [][NextClient]_vars

(***************************************************************************)
(* File names: the inputs the name functions are applied to.               *)
(***************************************************************************)
\* Pieces a file name is put together from, at most MaxTokens of them.
MaxTokens == 3


Tokens ==
    { Foo, <<"-">>, <<"-", "v", "2">>, <<"-", "1">>, <<".">>, Retrieved,
      RetrievedVersion,
      <<" ", "R", "e", "t", "r", "i", "e", "v", "e", "d", " ",
        "V", "e", "r", "s", "i", "o", "n">> }

RECURSIVE TokenNames(_)
TokenNames(n) ==
    IF n = 0 THEN {<<>>}
    ELSE TokenNames(n - 1)
           \cup {name \o t : name \in TokenNames(n - 1), t \in Tokens}

\* Names of files that are no restored copy.
CanonNames == {Foo, Foo \o <<"-", "1">>, <<"m", "y", "-", "f", ".", "v", "1">>}

\* Version strings a restored copy is named after.
VersionTags ==
    { <<"v", "2">>, <<"v", "1", ".", "2">>, <<"1", ".", "2">>,
      <<"v", " ", "1", ":">>, <<"v", "1", "-", "b">> }

\* name-retrieved-version.ext, the legacy name of a restored copy
LegacyName(f) ==
    Path(f.dir, splitext(basename(f)).name \o RetrievedVersion
                  \o splitext(basename(f)).ext)

\* The path the retrieve operation writes for the open file f.
Retrieve(f, version_str) == Path(f.dir, retrieved_filename(f, version_str))

\* The files the name functions are applied to: any name, or a restored
\* copy of a canonical file (retrieved once, retrieved again from the copy,
\* or in the legacy form).
NameInputs ==
    {[file |-> Path("/p", name \o Blend),
      origin |-> [form |-> "plain", canon |-> Path("/p", name \o Blend)]] :
        name \in TokenNames(MaxTokens)}
      \cup
    {[file |-> Retrieve(Path("/p", name \o Blend), tag),
      origin |-> [form |-> "retrieved", canon |-> Path("/p", name \o Blend)]] :
        name \in CanonNames, tag \in VersionTags}
      \cup
    {[file |-> Retrieve(Retrieve(Path("/p", name \o Blend), tag), tag),
      origin |-> [form |-> "retrieved_again",
                  canon |-> Path("/p", name \o Blend)]] :
        name \in CanonNames, tag \in VersionTags}
      \cup
    {[file |-> LegacyName(Path("/p", name \o Blend)),
      origin |-> [form |-> "legacy", canon |-> Path("/p", name \o Blend)]] :
        name \in CanonNames}

\* Histories /draft/history may return for the filter.
Bar == <<"B", "a", "r">>

RecordFoo == Version("v1", {Path("/a", Foo \o Blend)})

RecordBar == Version("v2", {Path("/b", Bar \o Blend)})

RecordMixed ==
    Version("v3", {Path("/c", <<"F", "O", "O", ".", "B", "L", "E", "N", "D">>),
                   Path("/c", Bar \o Blend)})

Histories ==
    { <<RecordFoo, RecordBar>>,
      <<Version("v4", {}), RecordMixed, RecordBar, RecordFoo,
        Version("v5", {Path("/p", Foo \o <<"-", "v", "2">> \o Retrieved
                                     \o Blend)})>>,
      <<RecordMixed, RecordMixed>> }

\* A call of recover_original_filepath.
Recover ==
    /\ ~nm_recovered.done
    /\ nm_recovered' = [done |-> TRUE, value |-> recover_original_filepath(nm_file)]
    /\ UNCHANGED <<nm_file, nm_origin, nm_target, nm_filtered, nm_copy, rootVars,
                   clientVars, panelVars, opsVars, ui_requests, pollerVars,
                   readerVars>>

\* The normalization of the open file's name in load_version_history.
Normalize ==
    /\ ~nm_target.done
    /\ nm_target' = [done |-> TRUE, value |-> target_file(basename(nm_file)),
                     lower |-> target_lower(basename(nm_file))]
    /\ UNCHANGED <<nm_file, nm_origin, nm_recovered, nm_filtered, nm_copy, rootVars,
                   clientVars, panelVars, opsVars, ui_requests, pollerVars,
                   readerVars>>

\* A call of load_version_history for a file whose project root is in the
\* Root Cache, /draft/history answering with one of the histories.
Filter ==
    /\ ~nm_filtered.done
    /\ \E history \in Histories :
         LET l == load_version_history(
                      nm_file, [d \in Dirs |-> Entry("/proj", now)], now,
                      CHOOSE reply \in FindRootReplies : TRUE,
                      Reply("2xx", TRUE, JsonArray(history)))
         IN  nm_filtered' = [done |-> TRUE, history |-> history,
                             raised |-> l.raised, value |-> l.result]
    /\ UNCHANGED <<nm_file, nm_origin, nm_recovered, nm_target, nm_copy, rootVars,
                   clientVars, panelVars, opsVars, ui_requests, pollerVars,
                   readerVars>>

\* OBJECT_OT_DfRetrieve.execute of draftflow_addon.py, from the file names
\* on: the destination of the copy for the open file and a version tag.
RetrieveCopy ==
    /\ ~nm_copy.done
    /\ \E tag \in VersionTags :
       \E d \in {final_path(nm_file, tag)} :
          nm_copy' = [done |-> TRUE, ended |-> d.ended, path |-> d.path]
    /\ UNCHANGED <<nm_file, nm_origin, nm_recovered, nm_target, nm_filtered,
                   rootVars, clientVars, panelVars, opsVars, ui_requests,
                   pollerVars, readerVars>>

InitNames ==
    /\ InitPoller
    /\ InitReader
    /\ InitRoot
    /\ InitPanel
    /\ InitOps
    /\ sr_addon = "draftwolf"
    /\ sr_endpoint = "/health"
    /\ sr_reply = Reply("refused", FALSE, JsonNull)
    /\ sr_result = Pending
    /\ \E input \in NameInputs :
         /\ nm_file = input.file
         /\ nm_origin = input.origin
    /\ nm_recovered = NotRecovered
    /\ nm_target = NoTarget
    /\ nm_filtered = NotFiltered
    /\ nm_copy = [done |-> FALSE, ended |-> FALSE, path |-> NonePath]

NextNames ==
    \/ Recover
    \/ Normalize
    \/ Filter

SpecNames == InitNames /\ [][NextNames]_vars

SpecRetrieve == InitNames /\ [][RetrieveCopy]_vars

NextOperators ==
    \/ \E f \in OpsFiles : OpenFile(f)
    \/ Commit
    \/ \E version_id \in {"", "c1"}, new_label \in {"", "Renamed"} :
          RenameVersion(version_id, new_label)
    \/ \E version_id \in {"", "c1"} : Restore(version_id)
    \/ RefreshVersions

SpecOperators == InitModule /\ [][NextOperators]_vars

\* The panel drawn while two files of one project are opened and versions
\* are committed and refreshed.
NextPanel ==
    \/ draw
    \/ \E f \in {f \in Files : dirname(f) = "/p"} : OpenFile(f)
    \/ ToggleVersions
    \/ Commit
    \/ RefreshVersions

SpecPanel == InitModule /\ [][NextPanel]_vars

NextHistory ==
    \/ draw
    \/ \E f \in Files : OpenFile(f)
    \/ ToggleVersions
    \/ Tick(MaxDrawTicks)

SpecHistory == InitModule /\ [][NextHistory]_vars

NextRoot ==
    \/ \E f \in Files : CallGetProjectRoot(f)
    \/ Tick(MaxTicks)

SpecRoot == InitModule /\ [][NextRoot]_vars

\* Projects are initialized while the root of the open file is looked up.
NextInit ==
    \/ \E f \in Files : FindProjectRoot(f)
    \/ \E f \in Files : DfInit(f)
    \/ Tick(MaxTicks)

SpecInit == InitModule /\ [][NextInit]_vars

(***************************************************************************)
(* Status poller: properties.                                              *)
(***************************************************************************)
Running(t) == pc[t] \notin {"idle", "done"}

AllStopped == \A t \in Threads : ~Running(t)

Cleared == <<FALSE, FALSE, NoneVal>>

\* C1: whenever app_running is false, is_logged_in is false and username
\* is None, in every state a reader may see.
C1_NoStaleLogin == ~app_running => (~is_logged_in /\ username = NoneVal)

\* C2: the three values an interactive operation has read are the snapshot
\* some single poll cycle left at its end.
C2_NoTornRead == r_pc = 3 => <<r_app, r_logged, r_user>> \in cycle_ends

\* C3: a cycle whose health check fails or raises while the snapshot says
\* logged in with a username ends with app_running, is_logged_in false and
\* username None.
C3_ClearedWithinCycle ==
    [][\A t \in Threads :
          ( /\ \/ pc[t] = "clear_username_down"
               \/ pc[t] = "except" /\ exc[t] = "health"
                    /\ is_logged_in /\ username # NoneVal
            /\ pc'[t] = "sleep_check" )
          => <<app_running', is_logged_in', username'>> = Cleared]_vars

\* C7: only status_worker steps change the snapshot, and the interactive
\* thread sends no /health and no /auth/status request.
C7_UiOnlyReads ==
    /\ [][snapshot' # snapshot => \E t \in Threads : pc'[t] # pc[t]]_vars
    /\ [](ui_requests \cap {"/health", "/auth/status"} = {})

C7_Witness == r_pc = 3 /\ r_app /\ r_logged /\ r_user # NoneVal

\* C8: a get_project_root call for a directory whose entry is younger than
\* the TTL sends no find-root request, returns the stored root (also None)
\* and leaves the cache alone; a call once the entry is 30 s old or older
\* sends exactly one request and overwrites the entry.
C8_RootTtl ==
    [][(root_call' # root_call /\ root_call'.dir # "")
         => LET d == root_call'.dir
                e == root_cache[d]
            IN  e.has =>
                  IF now - e.time < RootTtl
                  THEN /\ root_call'.sent = 0
                       /\ root_call'.result = e.root
                       /\ root_cache' = root_cache
                  ELSE /\ root_call'.sent = 1
                       /\ root_cache'[d].has
                       /\ root_cache'[d].time = now]_vars

\* A reply that is one of the failure modes of the transport.
FailureMode(reply) == reply.kind # "2xx" \/ ~reply.parses

\* {'success': False, 'error': <a string>}
IsFailureShape(v) ==
    v.shape = "dict" /\ v.success = "false" /\ v.error # "<absent>"

\* C9: a finished send_request call has not raised, and for a reply that is
\* a failure mode it has returned a value of the failure shape.
C9_NeverRaises ==
    sr_result # Pending =>
        /\ ~sr_result.raised
        /\ FailureMode(sr_reply) => IsFailureShape(sr_result.value)

\* C10: a call of draw that finds the open file path different from
\* SafeVersionList.current_filepath and does not end in an exception leaves
\* the cached history None or one computed for the open file.
C10_InvalidatedOnChange ==
    [][(draw_seq' # draw_seq /\ ~draw_raised' /\ filepath # current_filepath)
         => (~full_history'.loaded \/ full_history'.for = filepath)]_vars

\* C11: a call of draw for an initialized file, with the versions list
\* expanded, that finds the open file path different from
\* SafeVersionList.current_filepath (nothing fetched for it yet) and does not
\* end in an exception has fetched: it leaves a history loaded for that file.
C11_FirstAccessFetches ==
    [][(/\ draw_seq' # draw_seq
        /\ ~draw_raised'
        /\ cached_is_initialized'
        /\ show_versions
        /\ filepath # current_filepath)
         => (full_history'.loaded /\ full_history'.for = filepath)]_vars

\* C12: an operator call whose mutating request succeeded (commit,
\* commit-last-saved, rename-version, restore) leaves the cached history
\* either dropped or reloaded by that call, never the list computed before.
C12_MutationRefreshes ==
    [][(op_call'.seq # op_call.seq /\ op_call'.ok)
         => (~full_history'.loaded \/ op_call'.reloaded)]_vars

\* C13: when a commit of the open file succeeded with a version id and the
\* reload that follows returned, the history kept for the open file holds
\* the record with that id.
C13_CommitVisible ==
    [][(/\ op_call'.seq # op_call.seq
        /\ op_call'.op = "commit"
        /\ op_call'.ok
        /\ ~op_call'.raised)
         => /\ full_history'.loaded
            /\ full_history'.for = filepath
            /\ \E i \in 1..Len(full_history'.versions) :
                  full_history'.versions[i].id = op_call'.id]_vars

\* C14: load_version_history returns an empty sequence without raising and
\* without sending /draft/history when get_project_root returns no root
\* for the file, and returns an empty sequence without sending anything
\* when the file path is empty.
C14_NoRootNoHistory ==
    /\ lvh_call.no_root
          => (~lvh_call.raised /\ lvh_call.empty /\ ~lvh_call.asked_history)
    /\ \A rootReply \in FindRootReplies,
          histReply \in HistoryRepliesOf(svc_history) :
          LET l == load_version_history(NoFile, root_cache, now, rootReply,
                                        histReply)
          IN  ~l.raised /\ l.result = <<>> /\ l.sent = {}

\* C14: RefreshVersions has called load_version_history for an open file in
\* a directory with no project root.
C14_Witness ==
    /\ lvh_call.called
    /\ lvh_call.no_root
    /\ filepath # NoFile
    /\ "/draft/find-root" \in ui_requests
    /\ "/draft/history" \notin ui_requests

\* C15: a load_version_history call whose /draft/history request came back
\* from send_request as the failure shape does not raise.
C15_HistoryFailureReturns == lvh_call.hist_failed => ~lvh_call.raised

\* A record of the history holds a file whose base name is, in lower case,
\* the name target.
Holds(v, target) == target \in {Lower(basename(f_path)) : f_path \in v.files}

\* kept is history with exactly the records holding target, in order.
RECURSIVE IsFilterOf(_, _, _)
IsFilterOf(kept, history, target) ==
    IF history = <<>> THEN kept = <<>>
    ELSE IF Holds(Head(history), target)
    THEN /\ kept # <<>>
         /\ Head(kept) = Head(history)
         /\ IsFilterOf(Tail(kept), Tail(history), target)
    ELSE IsFilterOf(kept, Tail(history), target)

\* C16: the filtered history load_version_history returns is the remote
\* history restricted to the records that hold a file whose base name
\* equals, case-insensitively, the normalized target name: all of them, no
\* other, each once, in the remote order.
C16_FilterExact ==
    (nm_filtered.done /\ nm_target.done)
        => /\ ~nm_filtered.raised
           /\ IsFilterOf(nm_filtered.value, nm_filtered.history, nm_target.lower)

\* C16 witness: a history of which the filter kept a record whose file name
\* differs from the target in case, and dropped another.
C16_Witness ==
    /\ nm_filtered.done
    /\ nm_target.done
    /\ nm_filtered.value = <<RecordMixed, RecordFoo>>
    /\ Len(nm_filtered.history) = 5

\* C17: for a file that is a restored copy of a canonical file, the filtered
\* history is the remote history restricted to the records that hold a
\* file with the canonical file's base name, in any directory.
C17_RestoredNameFilter ==
    (nm_filtered.done /\ nm_origin.form # "plain")
        => IsFilterOf(nm_filtered.value, nm_filtered.history,
                      Lower(basename(nm_origin.canon)))

\* A name with no restore marker: no '-retrieved' (so no
\* '-retrieved-version') and, in any case, no ' retrieved version'.
MarkerFree(name) ==
    ~Contains(name, Retrieved) /\ ~Contains(Lower(name), SpacedMarker)

\* C18: for a file whose name has no restore marker,
\* recover_original_filepath returns the path itself and the target file
\* name of the history filter is the base name itself.
C18_MarkerFreeFixed ==
    MarkerFree(basename(nm_file))
        => /\ nm_recovered.done => nm_recovered.value = nm_file
           /\ nm_target.done => nm_target.value = basename(nm_file)

\* C18 witness: both functions applied to a marker-free name that ends in a
\* version suffix and has a dot inside.
C18_Witness ==
    /\ nm_recovered.done
    /\ nm_target.done
    /\ basename(nm_file) = Foo \o <<".">> \o <<"-", "v", "2">> \o Blend

\* C19: recover_original_filepath maps every restored copy of a canonical
\* file (retrieved, retrieved again with the counter, or legacy) back to
\* the canonical path.
C19_RoundTrip ==
    (nm_recovered.done /\ nm_origin.form # "plain")
        => nm_recovered.value = nm_origin.canon

\* C20: for every base name that contains '-retrieved-version',
\* recover_original_filepath returns the directory joined with what comes
\* before the marker plus the extension.
C20_LegacyMarker ==
    (nm_recovered.done /\ Contains(splitext(basename(nm_file)).name, RetrievedVersion))
        => nm_recovered.value =
             Path(nm_file.dir,
                  Before(splitext(basename(nm_file)).name,
                         Find(splitext(basename(nm_file)).name, RetrievedVersion))
                    \o splitext(basename(nm_file)).ext)

\* C28: a call of draw made before fetch_interval has passed since the last
\* automatic fetch fetches nothing: it leaves last_fetch_time as it is and
\* the cached history as it is or None; and the time of an automatic fetch
\* is at least fetch_interval after the time of the one before.
C28_FetchThrottled ==
    [][(draw_seq' # draw_seq)
         => /\ (now - last_fetch_time < FetchInterval)
                  => /\ last_fetch_time' = last_fetch_time
                     /\ full_history' = full_history \/ ~full_history'.loaded
            /\ (last_fetch_time' # last_fetch_time)
                  => /\ last_fetch_time' = now
                     /\ now - last_fetch_time >= FetchInterval]_vars

\* C28 witness: with the versions list expanded, draw has run for an
\* initialized file with no history loaded, one clock step after the last
\* fetch, and has not fetched.
C28_Witness ==
    /\ last_fetch_time = Epoch
    /\ now = Epoch + ClockStep
    /\ last_draw_time = now
    /\ show_versions
    /\ cached_is_initialized
    /\ cached_filepath = filepath
    /\ current_filepath = filepath
    /\ ~full_history.loaded
    /\ ~draw_raised

\* C29: SafeVersionList.fetch_interval is longer than RootCache.duration, so
\* that every Root Cache entry still served is younger than fetch_interval.
C29_IntervalLongerThanTtl ==
    /\ FetchInterval > RootTtl
    /\ \A d \in Dirs :
          Live(root_cache[d], now) => now - root_cache[d].time < FetchInterval

\* C30: a thread comes to the /auth/status request only from the health
\* check of the same cycle, in the step that stored app_running = True; a
\* health check that stored False goes on to clear the login state, and
\* from there, as from the exception handler, the thread reaches the sleep
\* loop without passing the /auth/status request.
C30_AuthAfterHealth ==
    [][\A t \in Threads :
          /\ (pc'[t] = "auth" /\ pc[t] # "auth")
                 => (pc[t] = "health" /\ app_running')
          /\ (pc[t] = "health" /\ pc'[t] # "health" /\ ~app_running')
                 => pc'[t] \in {"clear_login", "except"}
          /\ (pc[t] = "clear_login" /\ pc'[t] # pc[t])
                 => pc'[t] = "clear_username_down"
          /\ (pc[t] \in {"clear_username_down", "except"} /\ pc'[t] # pc[t])
                 => pc'[t] = "sleep_check"]_vars

\* C30 witness: the only thread is in the sleep loop of a cycle whose health
\* check found the service down.
C30_Witness ==
    \E t \in Threads :
        /\ pc[t] = "sleep_check"
        /\ \A u \in Threads \ {t} : pc[u] = "idle"
        /\ snapshot = <<FALSE, FALSE, NoneVal>>
        /\ flips = 1

\* C31: the username in the snapshot is None or a string of at most 15
\* characters, and the step that stores a reported username stores its
\* first 12 characters followed by '...' when it has more than 15 and the
\* username itself when it has at most 15.
C31_UsernameBounded ==
    /\ [](username = NoneVal
            \/ (username.k = "str" /\ Len(username.s) <= MaxUserLen))
    /\ [][\A t \in Threads :
            (pc[t] = "set_username" /\ pc'[t] = "sleep_check")
                => username' =
                     IF Len(uname[t].s) <= MaxUserLen THEN uname[t]
                     ELSE Str([i \in 1..(KeepUserLen + 3) |->
                                 IF i <= KeepUserLen THEN uname[t].s[i]
                                 ELSE "."])]_vars

\* C31 witness: the snapshot holds the shortened form of a username that
\* was reported with more than 15 characters.
C31_Witness ==
    /\ is_logged_in
    /\ username.k = "str"
    /\ Len(username.s) = KeepUserLen + 3
    /\ username.s[KeepUserLen] = "a"
    /\ username.s[KeepUserLen + 1] = "."

\* C32: a restore that returns {'CANCELLED'} (empty version id, or no
\* project root for the open file) has made no ReleaseLock, RemoteRestore
\* or Reopen call, has sent no /draft/restore request and leaves the open
\* file, the cached history and the service's records as they were.
C32_CancelledRestoreChangesNothing ==
    [][(/\ op_call'.seq # op_call.seq
        /\ op_call'.op = "restore"
        /\ op_call'.cancelled)
         => /\ op_call'.calls = <<>>
            /\ ~op_call'.raised
            /\ filepath' = filepath
            /\ ui_requests' \ ui_requests \subseteq {"/draft/find-root"}
            /\ UNCHANGED <<full_history, svc_history>>]_vars

\* C32 witness: a restore was cancelled for an open file with no project
\* root, before any restore request was sent.
C32_Witness ==
    /\ op_call.op = "restore"
    /\ op_call.cancelled
    /\ filepath # NoFile
    /\ "/draft/find-root" \in ui_requests
    /\ "/draft/restore" \notin ui_requests

\* C33: recover_original_filepath applied to a path it returned returns
\* that path again.
C33_RecoverIdempotent ==
    nm_recovered.done
        => recover_original_filepath(nm_recovered.value) = nm_recovered.value

\* C34: for a base name that ends in '-retrieved' or contains
\* '-retrieved-version', the base name of the path
\* recover_original_filepath returns is, in lower case, the target file
\* name the history filter computes for the same file.
C34_NormalizationsAgree ==
    (/\ nm_recovered.done
     /\ nm_target.done
     /\ \/ EndsWith(splitext(basename(nm_file)).name, Retrieved)
        \/ Contains(splitext(basename(nm_file)).name, RetrievedVersion))
        => Lower(basename(nm_recovered.value)) = nm_target.lower

\* C35: for every open file and version tag, the counter loop of the
\* copy-aside retrieve ends, and the path it picks for the copy is not the
\* path of the open file.
C35_CopyNeverOverOpenFile ==
    nm_copy.done => (nm_copy.ended /\ nm_copy.path # nm_file)

\* C35 witness: the open file was the copy a retrieve of version v2 writes,
\* and the loop added the counter.
C35_Witness ==
    /\ nm_copy.done
    /\ basename(nm_file) = Foo \o <<"-", "v", "2">> \o Retrieved \o Blend
    /\ basename(nm_copy.path)
          = Foo \o <<"-", "v", "2">> \o Retrieved \o <<"-", "1">> \o Blend

\* C36: a call of draw that lists versions (the project is initialized, the
\* list is expanded, the history is not empty and draw does not end in an
\* exception) lists a history that load_version_history computed for the
\* file open at that call.
C36_ListedHistoryIsOfOpenFile ==
    [][(/\ draw_seq' # draw_seq
        /\ ~draw_raised'
        /\ cached_is_initialized'
        /\ show_versions
        /\ full_history'.loaded
        /\ full_history'.versions # <<>>)
         => full_history'.for = filepath]_vars

\* C37: a get_project_root call for a file in a directory the service has
\* initialized a project in returns the root the service reports for that
\* directory.
C37_RootAfterInit ==
    [][(/\ root_call' # root_call
        /\ root_call'.dir \in svc_projects
        /\ ~root_call'.raised)
         => root_call'.result = root_call'.dir]_vars

\* The base name of the file the name functions are applied to, without
\* its extension, and the extension.
OpenName == splitext(basename(nm_file)).name

OpenExt == splitext(basename(nm_file)).ext

\* The test of the legacy rule in recover_original_filepath.
LegacyRule(name) ==
    \/ EndsWith(name, RetrievedVersion)
    \/ Contains(name, RetrievedVersion \o <<"-">>)

\* name without its last Len(suffix) characters.
Strip(name, suffix) == Before(name, Len(name) - Len(suffix) + 1)

\* C21: for a base name that ends in '-retrieved' and does not meet the
\* legacy rule, recover_original_filepath returns the directory joined with
\* the name without '-retrieved', cut before its last hyphen when it has
\* one and as it is when it has none, plus the extension.
C21_CurrentMarker ==
    (nm_recovered.done /\ EndsWith(OpenName, Retrieved) /\ ~LegacyRule(OpenName))
        => LET temp == Strip(OpenName, Retrieved)
           IN  nm_recovered.value =
                 Path(nm_file.dir,
                      (IF Contains(temp, <<"-">>)
                       THEN Before(temp, RFind(temp, <<"-">>))
                       ELSE temp) \o OpenExt)

\* C22: for a base name that contains ' retrieved version' (in any case, as
\* the history filter finds it), recover_original_filepath returns the
\* directory joined with what comes before the phrase plus the extension.
C22_SpacedMarker ==
    (nm_recovered.done /\ Contains(Lower(OpenName), SpacedMarker))
        => nm_recovered.value =
             Path(nm_file.dir,
                  Before(OpenName, Find(Lower(OpenName), SpacedMarker))
                    \o OpenExt)

\* The endings of a restored copy's name the normalization is stated for.
RestoredSuffixes ==
    { <<"-", "v", "2">> \o Retrieved,
      <<"-", "v", "1", ".", "2">> \o Retrieved,
      <<"-", "1", ".", "2">> \o Retrieved,
      <<"-", "v", "2">> \o Retrieved \o <<"-", "1">> }

\* C23: for every canonical name X, the target file name computed for
\* X-v2-retrieved, X-v1.2-retrieved, X-1.2-retrieved and X-v2-retrieved-1
\* is X (with the extension).
C23_SuffixesStripped ==
    nm_target.done
        => \A X \in CanonNames, suffix \in RestoredSuffixes :
              (basename(nm_file) = X \o suffix \o Blend)
                  => nm_target.value = X \o Blend

\* C24: for a file produced from a canonical file by one retrieve, or by a
\* second retrieve run on the copy the first one produced (which adds the
\* counter), the path resolved as the original is the canonical path and
\* the target file name of the history filter is the canonical base name.
C24_StableIdentity ==
    nm_origin.form \in {"retrieved", "retrieved_again"}
        => /\ nm_recovered.done => nm_recovered.value = nm_origin.canon
           /\ nm_target.done => nm_target.value = basename(nm_origin.canon)

\* How often call occurs in calls.
Count(calls, call) == Cardinality({i \in 1..Len(calls) : calls[i] = call})

\* C25: a restore that got as far as its first host or remote call made
\* exactly ReleaseLock, RemoteRestore, Reopen in that order when the
\* restore target is the open file; when it is not, it made no ReleaseLock,
\* one RemoteRestore and after it at most one Reopen.
C25_RestoreOrder ==
    (op_call.op = "restore" /\ op_call.calls # <<>>)
        => IF op_call.same
           THEN op_call.calls = <<"ReleaseLock", "RemoteRestore", "Reopen">>
           ELSE op_call.calls \in {<<"RemoteRestore">>,
                                   <<"RemoteRestore", "Reopen">>}

\* C26: a restore whose /draft/restore request came back without success
\* made exactly one Reopen call, whether or not the target is the open
\* file.
C26_ReopenAfterFailure ==
    (/\ op_call.op = "restore"
     /\ Count(op_call.calls, "RemoteRestore") = 1
     /\ ~op_call.ok
     /\ ~op_call.raised)
        => Count(op_call.calls, "Reopen") = 1

\* C27: a restore whose Reopen failed reported the reopen failure with its
\* own message, after a /draft/restore that succeeded and after one that
\* failed.
C27_ReopenFailureReported ==
    (op_call.op = "restore" /\ op_call.reopen_failed)
        => "Restored but failed to open" \in op_call.reports

\* C4: the poller loop ends only through the run flag: whatever a request
\* returns or raises, the exception is caught, the handler records the cycle
\* as unreachable (app_running = False) and goes on to the sleep loop, a
\* thread finishes only from the while test with the flag clear, and while
\* the flag stays set a thread that caught an exception starts a next cycle.
C4_LoopSurvives ==
    /\ [][\A t \in Threads :
            /\ (pc[t] # "done" /\ pc'[t] = "done")
                   => (pc[t] = "while" /\ ~thread_running)
            /\ (pc[t] \in {"health", "auth", "set_username"} /\ pc'[t] # pc[t])
                   => pc'[t] \in {"auth", "clear_login", "set_username",
                                   "clear_username", "sleep_check", "except"}
            /\ (pc[t] = "except" /\ pc'[t] # pc[t])
                   => (pc'[t] = "sleep_check" /\ ~app_running')]_vars
    /\ \A t \in Threads :
          (pc[t] = "except") ~> (pc[t] = "health" \/ ~thread_running)

C4_Witness ==
    \E t \in Threads :
        /\ pc[t] = "health"
        /\ \A u \in Threads \ {t} : pc[u] = "idle"
        /\ snapshot = <<FALSE, TRUE, NoneVal>>

\* C5: unregister() clears the flag without waiting for the thread; with
\* the flag clear a thread finishes at most one more time.sleep(0.1), starts
\* no cycle (passes no while test), and, unless the flag is set again,
\* every thread terminates.
C5_PromptShutdown ==
    /\ [][/\ (thread_running /\ ~thread_running'
                   /\ \E t \in Threads : Running(t)) => UNCHANGED pc
           /\ \A t \in Threads :
                (pc[t] = "while" /\ pc'[t] = "health") => thread_running]_vars
    /\ [](~thread_running => \A t \in Threads : slept_cleared[t] <= 1)
    /\ (~thread_running ~> (thread_running \/ AllStopped))

C5_Witness ==
    \E t \in Threads : ~thread_running /\ pc[t] = "done" /\ slept_cleared[t] = 1

\* C6: at most one status_worker thread is alive at any time.
C6_SinglePoller == Cardinality({t \in Threads : Running(t)}) <= 1

====
